---- MODULE Spec2Model ----
(***************************************************************************)
(* Altair Finance dashboard (app.py).  One run of main() is a render pass: *)
(* the authentication gate, the load of the user's portfolio into the      *)
(* session, the sidebar with the theme toggle, the BIST 100 / S&P 500 /    *)
(* symbol lookup blocks, the portfolio summary strip and the footer.  The  *)
(* quote source, the store and the live price lookup are collaborators     *)
(* whose answers are inputs of the step that asks for them.                *)
(***************************************************************************)
EXTENDS Integers, Sequences, FiniteSets, TLC

VARIABLES
    authUser,       \* auth_manager: the authenticated user id, or NoUser
    prefs,          \* db_manager: user id -> mapping preference name -> value
    session_state,  \* st.session_state: mapping with keys "portfolio", "theme"
    toggleW,        \* the theme toggle widget kept by the front end
    pc,             \* position of the render pass in main()
    trigger,        \* what started the pass: a user event or st.rerun()
    portfolio_df,   \* local portfolio_df: rows the store returned in this pass
    metric_col2,    \* local metric_col2: TRUE once line 85 has bound it
    out,            \* the element the last executed block put on the page
    rendered,       \* sections of the page emitted so far in this pass
    ops             \* collaborator calls made so far in this pass

vars == <<authUser, prefs, session_state, toggleW, pc, trigger, portfolio_df,
          metric_col2, out, rendered, ops>>

----------------------------------------------------------------------------
(* Bounds and input domains *)

MaxLen == 2

NoUser == "none"
Users == {"u1", "u2"}

OpenPrices == {0, 100}
ClosePrices == {0, 90, 110}
Quotes == [Open : OpenPrices, Close : ClosePrices]
Series == UNION {[1..n -> Quotes] : n \in 0..MaxLen}

\* what data_fetcher.get_stock_data does: raises, or returns a frame (maybe empty)
FetchResults == {[raised |-> TRUE, data |-> <<>>]} \cup
                {[raised |-> FALSE, data |-> s] : s \in Series}

\* how a division by zero ends: Python numbers raise ZeroDivisionError,
\* numpy scalars (what a numeric pandas column yields) give inf or nan
ZeroDivModes == {"raise", "nonfinite"}

\* rows of the holdings table the store can return
Pool ==
    { [symbol |-> "AAPL", quantity |-> 10, avg_cost |-> 100,
       target_quantity |-> 20, date_added |-> "2024-01-02"],
      [symbol |-> "TSLA", quantity |-> 5,  avg_cost |-> 200,
       target_quantity |-> 5,  date_added |-> "2024-02-01"],
      [symbol |-> "GIFT", quantity |-> 3,  avg_cost |-> 0,
       target_quantity |-> 3,  date_added |-> "2024-03-01"] }
LivePrices == {50, 150, 250}
\* price_lookup: symbol -> optional price; a symbol outside the domain has none
LookupsFor(symbols) == UNION {[D -> LivePrices] : D \in SUBSET symbols}

SearchInputs == {"", "SPY"}

----------------------------------------------------------------------------
(* Arithmetic: exact rationals <<numerator, denominator>>, denominator > 0; *)
(* <<1,0>>, <<-1,0>> and <<0,0>> are inf, -inf and nan.                     *)

Abs(n) == IF n < 0 THEN -n ELSE n

RECURSIVE GCD(_, _)
GCD(a, b) == IF b = 0 THEN a ELSE GCD(b, a % b)

Sign(n) == IF n > 0 THEN 1 ELSE IF n < 0 THEN -1 ELSE 0

Frac(n, d) ==
    IF d = 0 THEN <<Sign(n), 0>>
    ELSE LET g == GCD(Abs(n), Abs(d))
             s == Sign(d)
         IN  <<(s * n) \div g, (s * d) \div g>>

Zero == <<0, 1>>

\* q * k for an integer k > 0
Scale(q, k) == IF q[2] = 0 THEN q ELSE Frac(q[1] * k, q[2])

\* Python's a / b: raised is the ZeroDivisionError
TrueDiv(a, b, zd) ==
    IF b = 0 /\ zd = "raise"
    THEN [raised |-> TRUE, val |-> Zero]
    ELSE [raised |-> FALSE, val |-> Frac(a, b)]

----------------------------------------------------------------------------
(* The percentage change computed inline by the three quote blocks *)

ChangeOf(current, reference) == current - reference

ChangePct(current, reference, zd) ==
    LET q == TrueDiv(ChangeOf(current, reference), reference, zd)
    IN  [raised |-> q.raised, val |-> Scale(q.val, 100)]

Last(s) == s[Len(s)]

\* lines 80 and 101: Close.iloc[-1]
IndexCurrent(data) == Last(data).Close

IndexReference_close(data) == Last(data).Close

\* lines 81 and 102: Open.iloc[-1]
IndexReference(data) == Last(data).Open

\* lines 127-128
LookupCurrent(data) == Last(data).Close
PrevPrice(data) ==
    IF Len(data) > 1 THEN data[Len(data) - 1].Close ELSE Last(data).Close

\* the last n rows of a frame: what a block reads of it
LastRows(data, n) ==
    IF Len(data) > n THEN SubSeq(data, Len(data) - n + 1, Len(data)) ELSE data

FetchKind(fetch) ==
    IF fetch.raised THEN "raise"
    ELSE IF Len(fetch.data) = 0 THEN "empty" ELSE "data"

\* an element on the page, with the rows of the frame the block read for it
Element(block, fetch, read, kind, current, reference, pct) ==
    [block |-> block, fetch |-> FetchKind(fetch), read |-> read, kind |-> kind,
     current |-> current, reference |-> reference,
     change |-> ChangeOf(current, reference), pct |-> pct]

Notice(block, fetch, read, kind) == Element(block, fetch, read, kind, 0, 0, Zero)

NoElement == [block |-> "none", kind |-> "none"]

BistOutcome_emptyIsError(fetch, zd) ==
    IF fetch.raised \/ Len(fetch.data) = 0 THEN Notice("bist", fetch, <<>>, "error")
    ELSE LET cur == IndexCurrent(fetch.data)
             ref == IndexReference(fetch.data)
             p   == ChangePct(cur, ref, zd)
         IN  IF p.raised THEN Notice("bist", fetch, LastRows(fetch.data, 1), "error")
             ELSE Element("bist", fetch, LastRows(fetch.data, 1),
                          "metric", cur, ref, p.val)

\* try / if not empty / else warning / except error, lines 77-95
BistOutcome(fetch, zd) ==
    IF fetch.raised THEN Notice("bist", fetch, <<>>, "error")
    ELSE IF Len(fetch.data) = 0 THEN Notice("bist", fetch, <<>>, "warning")
    ELSE LET cur == IndexCurrent(fetch.data)
             ref == IndexReference(fetch.data)
             p   == ChangePct(cur, ref, zd)
         IN  IF p.raised THEN Notice("bist", fetch, LastRows(fetch.data, 1), "error")
             ELSE Element("bist", fetch, LastRows(fetch.data, 1),
                          "metric", cur, ref, p.val)

\* lines 97-115; `with metric_col2` raises when line 85 never ran
SpOutcome(fetch, zd, col2) ==
    IF fetch.raised THEN Notice("sp500", fetch, <<>>, "error")
    ELSE IF Len(fetch.data) = 0 THEN Notice("sp500", fetch, <<>>, "warning")
    ELSE LET cur == IndexCurrent(fetch.data)
             ref == IndexReference(fetch.data)
             p   == ChangePct(cur, ref, zd)
         IN  IF p.raised \/ ~col2 THEN Notice("sp500", fetch, LastRows(fetch.data, 1), "error")
             ELSE Element("sp500", fetch, LastRows(fetch.data, 1),
                          "metric", cur, ref, p.val)

\* lines 123-156
SearchOutcome(fetch, zd) ==
    IF fetch.raised THEN Notice("search", fetch, <<>>, "error")
    ELSE IF Len(fetch.data) = 0 THEN Notice("search", fetch, <<>>, "warning")
    ELSE LET cur == LookupCurrent(fetch.data)
             ref == PrevPrice(fetch.data)
             p   == ChangePct(cur, ref, zd)
         IN  IF p.raised THEN Notice("search", fetch, LastRows(fetch.data, 2), "error")
             ELSE Element("search", fetch, LastRows(fetch.data, 2),
                          "metric", cur, ref, p.val)

----------------------------------------------------------------------------
(* Session state, preferences and the portfolio cache *)

EmptyMap == [k \in {} |-> 0]

SessionSet(k, v) ==
    [x \in DOMAIN session_state \cup {k} |-> IF x = k THEN v ELSE session_state[x]]

\* lines 39-46: the frame's rows copied into a dict keyed by symbol
DfToPortfolio(df) ==
    [s \in {r.symbol : r \in df} |->
        LET r == CHOOSE r \in df : r.symbol = s
        IN  [quantity |-> r.quantity, avg_cost |-> r.avg_cost,
             target_quantity |-> r.target_quantity, date_added |-> r.date_added]]

\* line 162: 'portfolio' in st.session_state and st.session_state.portfolio
HasPortfolio ==
    /\ "portfolio" \in DOMAIN session_state
    /\ DOMAIN session_state["portfolio"] # {}

\* db_manager.get_user_preferences: the user's stored mapping
GetUserPreferences(user_id) ==
    IF user_id \in DOMAIN prefs THEN prefs[user_id] ELSE EmptyMap

\* dict.get(key, default)
PrefGet(m, key, default) == IF key \in DOMAIN m THEN m[key] ELSE default

\* db_manager.update_user_preferences(user_id, **changes): upserts the given keys
UpdateUserPreferences(user_id, changes) ==
    IF user_id \notin DOMAIN prefs THEN prefs
    ELSE [prefs EXCEPT ![user_id] =
            [k \in DOMAIN prefs[user_id] \cup DOMAIN changes |->
                IF k \in DOMAIN changes THEN changes[k] ELSE prefs[user_id][k]]]

\* line 60/61: user_prefs.get('theme', 'light') == 'dark'
StoredDark(user_prefs) == PrefGet(user_prefs, "theme", "light") = "dark"

NewTheme_inverted(theme_toggle) == IF theme_toggle THEN "light" ELSE "dark"

\* line 62
NewTheme(theme_toggle) == IF theme_toggle THEN "dark" ELSE "light"

NoWidget == [exists |-> FALSE, dflt |-> FALSE, cur |-> FALSE]

\* st.toggle(label, value=v): a widget without key is identified by its
\* parameters; the same widget returns its kept value, a new one returns v
ToggleWidget(v) ==
    IF toggleW.exists /\ toggleW.dflt = v THEN toggleW
    ELSE [exists |-> TRUE, dflt |-> v, cur |-> v]

----------------------------------------------------------------------------
(* Portfolio aggregation *)

RECURSIVE SumOver(_, _, _)
SumOver(S, p, lookup) ==
    IF S = {} THEN [value |-> 0, cost |-> 0]
    ELSE LET s    == CHOOSE x \in S : TRUE
             rest == SumOver(S \ {s}, p, lookup)
             mv   == IF s \in DOMAIN lookup THEN lookup[s] * p[s].quantity ELSE 0
         IN  [value |-> rest.value + mv,
              cost  |-> rest.cost + p[s].avg_cost * p[s].quantity]

RECURSIVE SumPriced(_, _, _)
SumPriced(S, p, lookup) ==
    IF S = {} THEN [value |-> 0, cost |-> 0]
    ELSE LET s    == CHOOSE x \in S : TRUE
             rest == SumPriced(S \ {s}, p, lookup)
         IN  IF s \in DOMAIN lookup
             THEN [value |-> rest.value + lookup[s] * p[s].quantity,
                   cost  |-> rest.cost + p[s].avg_cost * p[s].quantity]
             ELSE rest

GetPortfolioSummary_skipUnpriced(p, lookup) ==
    LET t == SumPriced(DOMAIN p, p, lookup)
    IN  [total_value |-> t.value, total_cost |-> t.cost,
         holdings_count |-> Cardinality(DOMAIN p)]

GetPortfolioSummary_offByOne(p, lookup) ==
    LET t == SumOver(DOMAIN p, p, lookup)
    IN  [total_value |-> t.value, total_cost |-> t.cost,
         holdings_count |-> Cardinality(DOMAIN p) + 1]

\* portfolio_manager.get_portfolio_summary() over the session's portfolio
GetPortfolioSummary(p, lookup) ==
    LET t == SumOver(DOMAIN p, p, lookup)
    IN  [total_value |-> t.value, total_cost |-> t.cost,
         holdings_count |-> Cardinality(DOMAIN p)]

\* line 174
ProfitLoss(summary) == summary.total_value - summary.total_cost

ProfitLossPct_unguarded(summary, zd) ==
    IF summary.total_cost >= 0
    THEN LET q == TrueDiv(ProfitLoss(summary), summary.total_cost, zd)
         IN  [raised |-> q.raised, val |-> Scale(q.val, 100)]
    ELSE [raised |-> FALSE, val |-> Zero]

\* line 175: the division is guarded by total_cost > 0
ProfitLossPct(summary, zd) ==
    IF summary.total_cost > 0
    THEN LET q == TrueDiv(ProfitLoss(summary), summary.total_cost, zd)
         IN  [raised |-> q.raised, val |-> Scale(q.val, 100)]
    ELSE [raised |-> FALSE, val |-> Zero]

\* line 183: len(st.session_state.portfolio)
HoldingsCount(p) == Cardinality(DOMAIN p)

\* lines 163-183; an exception here is caught by nothing and ends the run
SummaryElement(p, lookup, zd) ==
    LET summary == GetPortfolioSummary(p, lookup)
        pct     == ProfitLossPct(summary, zd)
    IN  [block |-> "summary",
         kind |-> IF pct.raised THEN "exception" ELSE "metrics",
         holdings |-> p, lookup |-> lookup, summary |-> summary,
         profit_loss |-> ProfitLoss(summary),
         profit_loss_pct |-> pct.val,
         count |-> HoldingsCount(p)]

SummaryInfo == [block |-> "summary", kind |-> "info"]

----------------------------------------------------------------------------
(* The render pass of main() *)

AllSections == {"title", "sidebar", "bist", "sp500", "search", "summary",
                "news", "footer"}

\* the stored preferences at the first page load: u1 has no theme yet
InitPrefs ==
    [u \in Users |->
        IF u = "u1" THEN [k \in {"language"} |-> "tr"]
        ELSE [k \in {"language", "theme"} |-> IF k = "theme" THEN "dark" ELSE "en"]]

\* a new run of the script: locals unbound, nothing on the page yet
StartPass(by) ==
    /\ pc' = "auth"
    /\ trigger' = by
    /\ portfolio_df' = {}
    /\ metric_col2' = FALSE
    /\ out' = NoElement
    /\ rendered' = {}
    /\ ops' = {}

Init ==
    /\ authUser = NoUser
    /\ prefs = InitPrefs
    /\ session_state = EmptyMap
    /\ toggleW = NoWidget
    /\ pc = "auth"
    /\ trigger = "user"
    /\ portfolio_df = {}
    /\ metric_col2 = FALSE
    /\ out = NoElement
    /\ rendered = {}
    /\ ops = {}

AuthGate_noReturn ==
    /\ pc = "auth"
    /\ IF authUser = NoUser
       THEN /\ rendered' = rendered \cup {"login"}
            /\ toggleW' = NoWidget
       ELSE UNCHANGED <<rendered, toggleW>>
    /\ pc' = "load"
    /\ UNCHANGED <<authUser, prefs, session_state, trigger, portfolio_df,
                   metric_col2, out, ops>>

\* lines 28-31
AuthGate ==
    /\ pc = "auth"
    /\ IF authUser = NoUser
       THEN /\ rendered' = rendered \cup {"login"}
            /\ toggleW' = NoWidget
            /\ pc' = "done"
       ELSE /\ pc' = "load"
            /\ UNCHANGED <<rendered, toggleW>>
    /\ UNCHANGED <<authUser, prefs, session_state, trigger, portfolio_df,
                   metric_col2, out, ops>>

\* lines 33-49
LoadPortfolio ==
    /\ pc = "load"
    /\ IF authUser # NoUser
       THEN \E df \in SUBSET Pool :
                /\ portfolio_df' = df
                /\ ops' = ops \cup {"get_user_portfolio"}
                /\ session_state' = IF df # {}
                                    THEN SessionSet("portfolio", DfToPortfolio(df))
                                    ELSE session_state
       ELSE UNCHANGED <<portfolio_df, ops, session_state>>
    /\ rendered' = rendered \cup {"title"}
    /\ pc' = "sidebar"
    /\ UNCHANGED <<authUser, prefs, toggleW, trigger, metric_col2, out>>

\* lines 52-68
Sidebar ==
    /\ pc = "sidebar"
    /\ LET user_id      == authUser
           user_prefs   == GetUserPreferences(user_id)
           w            == ToggleWidget(StoredDark(user_prefs))
           theme_toggle == w.cur
       IN  /\ toggleW' = w
           /\ IF theme_toggle # StoredDark(user_prefs)
              THEN LET new_theme == NewTheme(theme_toggle)
                   IN  /\ prefs' = UpdateUserPreferences(user_id,
                                       [k \in {"theme"} |-> new_theme])
                       /\ session_state' = SessionSet("theme", new_theme)
                       /\ StartPass("rerun")
              ELSE /\ rendered' = rendered \cup {"sidebar"}
                   /\ ops' = ops \cup {"get_user_preferences"}
                   /\ pc' = "bist"
                   /\ UNCHANGED <<prefs, session_state, trigger, portfolio_df,
                                  metric_col2, out>>
    /\ UNCHANGED authUser

\* lines 76-95
BistBlock ==
    /\ pc = "bist"
    /\ \E fetch \in FetchResults, zd \in ZeroDivModes :
          /\ out' = BistOutcome(fetch, zd)
          /\ metric_col2' = (BistOutcome(fetch, zd).kind = "metric")
    /\ rendered' = rendered \cup {"bist"}
    /\ ops' = ops \cup {"get_stock_data"}
    /\ pc' = "sp500"
    /\ UNCHANGED <<authUser, prefs, session_state, toggleW, trigger, portfolio_df>>

\* lines 97-115
SpBlock ==
    /\ pc = "sp500"
    /\ \E fetch \in FetchResults, zd \in ZeroDivModes :
          out' = SpOutcome(fetch, zd, metric_col2)
    /\ rendered' = rendered \cup {"sp500"}
    /\ ops' = ops \cup {"get_stock_data"}
    /\ pc' = "search"
    /\ UNCHANGED <<authUser, prefs, session_state, toggleW, trigger, portfolio_df,
                   metric_col2>>

\* lines 117-156
SearchBlock ==
    /\ pc = "search"
    /\ \E search_symbol \in SearchInputs :
          IF search_symbol # ""
          THEN /\ \E fetch \in FetchResults, zd \in ZeroDivModes :
                      out' = SearchOutcome(fetch, zd)
               /\ ops' = ops \cup {"get_stock_data"}
          ELSE UNCHANGED <<out, ops>>
    /\ rendered' = rendered \cup {"search"}
    /\ pc' = "summary"
    /\ UNCHANGED <<authUser, prefs, session_state, toggleW, trigger, portfolio_df,
                   metric_col2>>

\* lines 158-185
SummaryBlock ==
    /\ pc = "summary"
    /\ IF HasPortfolio
       THEN /\ \E lookup \in LookupsFor(DOMAIN session_state["portfolio"]),
                   zd \in ZeroDivModes :
                   out' = SummaryElement(session_state["portfolio"], lookup, zd)
            /\ ops' = ops \cup {"get_portfolio_summary"}
       ELSE /\ out' = SummaryInfo
            /\ UNCHANGED ops
    /\ rendered' = rendered \cup {"summary"}
    /\ pc' = IF out'.kind = "exception" THEN "crashed" ELSE "footer"
    /\ UNCHANGED <<authUser, prefs, session_state, toggleW, trigger, portfolio_df,
                   metric_col2>>

\* lines 187-201
Footer ==
    /\ pc = "footer"
    /\ rendered' = rendered \cup {"news", "footer"}
    /\ pc' = "done"
    /\ UNCHANGED <<authUser, prefs, session_state, toggleW, trigger, portfolio_df,
                   metric_col2, out, ops>>

----------------------------------------------------------------------------
(* Events between passes; each one makes the script run again *)

\* the run has ended (by return or by an uncaught exception)
Idle == pc \in {"done", "crashed"}

\* the login form of auth_manager.show_login_page
Login ==
    /\ Idle
    /\ authUser = NoUser
    /\ \E u \in Users : authUser' = u
    /\ StartPass("user")
    /\ UNCHANGED <<prefs, session_state, toggleW>>

\* the logout of auth_manager.show_user_menu
Logout ==
    /\ Idle
    /\ authUser # NoUser
    /\ authUser' = NoUser
    /\ StartPass("user")
    /\ UNCHANGED <<prefs, session_state, toggleW>>

\* the user flips the theme toggle
ClickToggle ==
    /\ Idle
    /\ toggleW.exists
    /\ toggleW' = [toggleW EXCEPT !.cur = ~toggleW.cur]
    /\ StartPass("user")
    /\ UNCHANGED <<authUser, prefs, session_state>>

\* any other interaction with the page (typing a symbol, a button)
Interact ==
    /\ Idle
    /\ StartPass("user")
    /\ UNCHANGED <<authUser, prefs, session_state, toggleW>>

Next ==
    \/ AuthGate
    \/ LoadPortfolio
    \/ Sidebar
    \/ BistBlock
    \/ SpBlock
    \/ SearchBlock
    \/ SummaryBlock
    \/ Footer
    \/ Login
    \/ Logout
    \/ ClickToggle
    \/ Interact

Spec == Init /\ [][Next]_vars

----------------------------------------------------------------------------
(* The aggregation applied to every holdings table, the empty one included *)

InitValuate ==
    /\ authUser = NoUser
    /\ prefs = InitPrefs
    /\ session_state \in
          {[k \in {"portfolio"} |-> DfToPortfolio(df)] : df \in SUBSET Pool}
    /\ toggleW = NoWidget
    /\ pc = "valuate"
    /\ trigger = "user"
    /\ portfolio_df = {}
    /\ metric_col2 = FALSE
    /\ out = NoElement
    /\ rendered = {}
    /\ ops = {}

Valuate ==
    /\ pc = "valuate"
    /\ \E lookup \in LookupsFor(DOMAIN session_state["portfolio"]) :
          out' = [block |-> "valuate", kind |-> "summary",
                  holdings |-> session_state["portfolio"], lookup |-> lookup,
                  summary |-> GetPortfolioSummary(session_state["portfolio"], lookup),
                  count |-> HoldingsCount(session_state["portfolio"])]
    /\ pc' = "valuated"
    /\ UNCHANGED <<authUser, prefs, session_state, toggleW, trigger, portfolio_df,
                   metric_col2, rendered, ops>>

NextValuate == Valuate

SpecValuate == InitValuate /\ [][NextValuate]_vars

----------------------------------------------------------------------------
(* Properties *)

QuoteBlocks == {"bist", "sp500", "search"}

RECURSIVE CostOf(_, _)
CostOf(S, p) ==
    IF S = {} THEN 0
    ELSE LET s == CHOOSE x \in S : TRUE
         IN  p[s].avg_cost * p[s].quantity + CostOf(S \ {s}, p)

RECURSIVE ValueOf(_, _, _)
ValueOf(S, p, lookup) ==
    IF S = {} THEN 0
    ELSE LET s == CHOOSE x \in S : TRUE
         IN  lookup[s] * p[s].quantity + ValueOf(S \ {s}, p, lookup)

SummaryShown == out.block = "summary" /\ out.kind = "metrics"

\* C1: the summary strip shows absolute = total_value - total_cost and
\* percent = absolute / total_cost * 100 when total_cost > 0; when total_cost
\* is 0 the percent is 0 whatever total_value is, and no division error ends
\* the run.
C1_ProfitLoss ==
    /\ pc # "crashed"
    /\ SummaryShown =>
         LET tv == out.summary.total_value
             tc == out.summary.total_cost
         IN  /\ out.profit_loss = tv - tc
             /\ tc > 0 => out.profit_loss_pct = Frac(100 * (tv - tc), tc)
             /\ tc = 0 => out.profit_loss_pct = Zero

C1_Witness ==
    /\ SummaryShown
    /\ out.summary.total_cost = 0
    /\ out.summary.total_value > 0
    /\ out.profit_loss_pct = Zero

\* C2: a zero reference always fails and is never turned into a displayed
\* change value, in each of the three quote blocks.
C2_ZeroReferenceNeverDisplayed ==
    (out.block \in QuoteBlocks /\ out.kind = "metric") => out.reference # 0

\* C3: a holding without a live price does not stop the summary: it is counted,
\* its avg_cost * quantity is in total_cost, and its market value is not in
\* total_value.
C3_MissingPriceDegrades ==
    /\ pc # "crashed"
    /\ SummaryShown =>
         LET p == out.holdings
         IN  /\ out.count = Cardinality(DOMAIN p)
             /\ out.summary.holdings_count = Cardinality(DOMAIN p)
             /\ out.summary.total_cost = CostOf(DOMAIN p, p)
             /\ out.summary.total_value =
                    ValueOf(DOMAIN p \cap DOMAIN out.lookup, p, out.lookup)

C3_Witness ==
    /\ SummaryShown
    /\ "TSLA" \in DOMAIN out.holdings \ DOMAIN out.lookup
    /\ "AAPL" \in DOMAIN out.holdings \cap DOMAIN out.lookup
    /\ out.summary.total_cost = 2000
    /\ out.summary.total_value = 1500

\* C4: the holdings the summary and the holdings count are computed from are
\* exactly the holdings the store returned for the current user in this pass.
C4_SummaryFromStoreHoldings ==
    (out.block = "summary") =>
        IF out.kind = "info" THEN portfolio_df = {}
        ELSE out.holdings = DfToPortfolio(portfolio_df)

\* C5: an empty quote result gives a warning and a raised error an error
\* notice, and neither stops the pass: it reaches every later section.
C5_FetchFailuresContained ==
    /\ pc # "crashed"
    /\ out.block \in QuoteBlocks =>
         /\ out.fetch = "empty" => out.kind = "warning"
         /\ out.fetch = "raise" => out.kind = "error"
         /\ out.fetch = "data" => out.kind # "warning"
    /\ (pc = "done" /\ authUser # NoUser) => rendered = AllSections
    /\ pc = "search" => {"bist", "sp500"} \subseteq rendered
    /\ pc = "summary" => {"bist", "sp500", "search"} \subseteq rendered

\* the lookup's fetch raised after the BIST 100 block had shown no metric, and
\* the pass stands at the portfolio summary
C5_Witness ==
    /\ pc = "summary"
    /\ {"bist", "sp500", "search"} \subseteq rendered
    /\ ~metric_col2
    /\ out.block = "search"
    /\ out.fetch = "raise"
    /\ out.kind = "error"

\* C6: with reference # 0 the displayed change is (current - reference) /
\* reference * 100; the index blocks take current and reference from the
\* latest row's close and open, the lookup takes the previous close, which is
\* the latest close (change 0) for a one-row series.
C6_ChangePercent ==
    (out.block \in QuoteBlocks /\ out.kind = "metric") =>
        LET cur  == out.current
            ref  == out.reference
            rows == out.read
        IN  /\ ref # 0 => out.pct = Frac((cur - ref) * 100, ref)
            /\ (cur = 110 /\ ref = 100) => out.pct = <<10, 1>>
            /\ (cur = 90 /\ ref = 100) => out.pct = <<-10, 1>>
            /\ out.block \in {"bist", "sp500"} =>
                  /\ cur = rows[Len(rows)].Close
                  /\ ref = rows[Len(rows)].Open
            /\ out.block = "search" =>
                  /\ cur = rows[Len(rows)].Close
                  /\ Len(rows) > 1 => ref = rows[Len(rows) - 1].Close
                  /\ Len(rows) = 1 =>
                        /\ ref = cur
                        /\ out.change = 0
                        /\ ref # 0 => out.pct = Zero

C6_Witness ==
    /\ out.block = "bist"
    /\ out.kind = "metric"
    /\ out.current = 90
    /\ out.reference = 100
    /\ out.pct = <<-10, 1>>

\* C7: for an empty holdings table the summary is total_value = 0,
\* total_cost = 0 and holdings_count = 0.
C7_EmptyHoldings ==
    (out.block = "valuate" /\ DOMAIN out.holdings = {}) =>
        /\ out.summary.total_value = 0
        /\ out.summary.total_cost = 0
        /\ out.summary.holdings_count = 0
        /\ out.count = 0

C7_Witness ==
    /\ pc = "valuated"
    /\ out.block = "valuate"
    /\ DOMAIN out.holdings = {}

\* C8: an unauthenticated pass shows the login page only and returns: no store
\* read or write, no quote fetch and no summary happen in it.
C8_LoginOnly ==
    "login" \in rendered =>
        /\ pc = "done"
        /\ rendered = {"login"}
        /\ ops = {}
        /\ out = NoElement

C8_Witness ==
    /\ pc = "done"
    /\ authUser = NoUser
    /\ rendered = {"login"}
    /\ HasPortfolio

\* C9: a non-empty S&P 500 series with a non-zero open is always displayed as
\* the S&P 500 metric, whatever the BIST 100 fetch did.
C9_SpIndependentOfBist ==
    (/\ out.block = "sp500"
     /\ out.fetch = "data"
     /\ out.read[Len(out.read)].Open # 0) => out.kind = "metric"

ThemeName(dark) == IF dark THEN "dark" ELSE "light"

\* C10: when the toggle differs from the stored theme, one update sets only
\* the theme key to the toggled value, the session theme is set and the page
\* reruns; the rerun finds toggle and stored theme equal and writes nothing; a
\* pass whose toggle equals the stored theme never writes preferences.
C10_ThemeSettles ==
    [][pc = "sidebar" =>
         LET u       == authUser
             stored  == PrefGet(prefs[u], "theme", "light")
             toggled == ThemeName(toggleW'.cur)
         IN  /\ toggled # stored =>
                  /\ DOMAIN prefs'[u] = DOMAIN prefs[u] \cup {"theme"}
                  /\ prefs'[u]["theme"] = toggled
                  /\ \A k \in DOMAIN prefs[u] \ {"theme"} : prefs'[u][k] = prefs[u][k]
                  /\ \A v \in Users \ {u} : prefs'[v] = prefs[v]
                  /\ session_state'["theme"] = toggled
                  /\ pc' = "auth"
                  /\ trigger' = "rerun"
             /\ toggled = stored => (prefs' = prefs /\ pc' = "bist")
             /\ trigger = "rerun" => (toggled = stored /\ prefs' = prefs)
      ]_vars

C10_Witness ==
    /\ pc = "bist"
    /\ trigger = "rerun"
    /\ authUser = "u1"
    /\ prefs["u1"]["language"] = "tr"
    /\ prefs["u1"]["theme"] = "dark"
    /\ session_state["theme"] = "dark"
    /\ toggleW.cur

====
